---- MODULE Spec2Model ----
(***************************************************************************)
(* A model of tool/backend/app.py: the resume upload and analysis web      *)
(* application.  Python strings are sequences of one-character strings; a  *)
(* code point outside ASCII is written by its name ("U+00E9" is e-acute).  *)
(* A Python exception is a result whose field "raised" is TRUE.            *)
(***************************************************************************)
EXTENDS Integers, Sequences, FiniteSets, TLC

VARIABLES uploads, pc, cur, resp, calls, extracted, nreq, raw, doc, out

vars == <<uploads, pc, cur, resp, calls, extracted, nreq, raw, doc, out>>

----------------------------------------------------------------------------
(* Characters and the str methods the program uses.                        *)

Lowers == <<"a", "b", "c", "d", "e", "f", "g", "h", "i", "j", "k", "l", "m",
            "n", "o", "p", "q", "r", "s", "t", "u", "v", "w", "x", "y", "z">>

Uppers == <<"A", "B", "C", "D", "E", "F", "G", "H", "I", "J", "K", "L", "M",
            "N", "O", "P", "Q", "R", "S", "T", "U", "V", "W", "X", "Y", "Z">>

\* The regex class [a-z].
IsLower(c) == \E i \in DOMAIN Lowers : Lowers[i] = c

\* The regex class [A-Z].
IsUpper(c) == \E i \in DOMAIN Uppers : Uppers[i] = c

\* The regex class \d.
IsDigit(c) == c \in {"0", "1", "2", "3", "4", "5", "6", "7", "8", "9"}

\* Letters outside ASCII that the model's strings may hold: e-acute in lower
\* and upper case, and sharp s (lower case, no NFKD decomposition).
NonAsciiLower == {"U+00E9", "U+00DF"}

NonAsciiUpper == {"U+00C9"}

\* The regex class \w of a str pattern (Unicode word characters).
IsWord(c) == IsLower(c) \/ IsUpper(c) \/ IsDigit(c) \/ c = "_"
             \/ c \in NonAsciiLower \/ c \in NonAsciiUpper

\* The regex class \s and the characters str.strip() removes.
SpaceChars == {" ", "\t", "\n", "\r", "\f"}

IsSpace(c) == c \in SpaceChars

\* A line boundary of str.splitlines().
IsLineBreak(c) == c \in {"\n", "\r", "\f"}

\* str.lower() of one character.
LowerChar(c) ==
    IF IsUpper(c) THEN Lowers[CHOOSE i \in DOMAIN Uppers : Uppers[i] = c]
    ELSE IF c = "U+00C9" THEN "U+00E9"
    ELSE c

\* str.lower().
lower(s) == [i \in DOMAIN s |-> LowerChar(s[i])]

Min(S) == CHOOSE x \in S : \A y \in S : x <= y

Max(S) == CHOOSE x \in S : \A y \in S : x >= y

\* s[:n]
Take(s, n) == SubSeq(s, 1, IF Len(s) < n THEN Len(s) ELSE n)

\* s.strip(chars): the characters of chars are removed from both ends.
StripSet(s, chars) ==
    LET keep == {i \in DOMAIN s : s[i] \notin chars}
    IN  IF keep = {} THEN <<>> ELSE SubSeq(s, Min(keep), Max(keep))

\* s.strip()
strip(s) == StripSet(s, SpaceChars)

\* s.strip('- ')
strip_dash_space(s) == StripSet(s, {"-", " "})

\* s.startswith('-')
startswith_dash(s) == Len(s) >= 1 /\ s[1] = "-"

\* sub in s
Contains(s, sub) ==
    \E i \in 1..(Len(s) - Len(sub) + 1) : SubSeq(s, i, i + Len(sub) - 1) = sub

\* The index of the last '.' of s, 0 when there is none: where rsplit('.', 1) cuts.
LastDot(s) ==
    LET dots == {i \in DOMAIN s : s[i] = "."}
    IN  IF dots = {} THEN 0 ELSE Max(dots)

\* s.splitlines(): the lines of s without their line breaks, "\r\n" being one break.
RECURSIVE splitlines(_)
splitlines(s) ==
    IF s = <<>> THEN <<>>
    ELSE LET brk == {i \in DOMAIN s : IsLineBreak(s[i])}
         IN  IF brk = {} THEN <<s>>
             ELSE LET i == Min(brk)
                      j == IF s[i] = "\r" /\ i < Len(s) /\ s[i + 1] = "\n"
                           THEN i + 1 ELSE i
                  IN  <<SubSeq(s, 1, i - 1)>> \o splitlines(SubSeq(s, j + 1, Len(s)))

\* "\n".join(lines)
RECURSIVE join_lines(_)
join_lines(ls) ==
    IF ls = <<>> THEN <<>>
    ELSE IF Len(ls) = 1 THEN ls[1]
    ELSE ls[1] \o <<"\n">> \o join_lines(Tail(ls))

\* [ln.strip('- ').strip() for ln in lines if ln.strip().startswith('-')]
RECURSIVE dash_items(_)
dash_items(lines) ==
    IF lines = <<>> THEN <<>>
    ELSE (IF startswith_dash(strip(lines[1]))
          THEN <<strip(strip_dash_space(lines[1]))>> ELSE <<>>)
         \o dash_items(Tail(lines))

\* int(digits) for a string of decimal digits.
DigitValue(c) ==
    CASE c = "0" -> 0 [] c = "1" -> 1 [] c = "2" -> 2 [] c = "3" -> 3 [] c = "4" -> 4
      [] c = "5" -> 5 [] c = "6" -> 6 [] c = "7" -> 7 [] c = "8" -> 8 [] c = "9" -> 9

RECURSIVE int(_)
int(ds) ==
    IF ds = <<>> THEN 0
    ELSE 10 * int(SubSeq(ds, 1, Len(ds) - 1)) + DigitValue(ds[Len(ds)])

----------------------------------------------------------------------------
(* Configuration.                                                          *)

E_pdf == <<"p", "d", "f">>

E_doc == <<"d", "o", "c">>

E_docx == <<"d", "o", "c", "x">>

ALLOWED_EXTENSIONS == {E_pdf, E_doc, E_docx}

\* basedir/uploads with basedir taken relative: the directory of the stored files.
UPLOAD_FOLDER == <<"u", "p", "l", "o", "a", "d", "s">>

\* os.path.join(UPLOAD_FOLDER, name): an absolute name replaces the directory.
path_join(dir, name) ==
    IF Len(name) >= 1 /\ name[1] = "/" THEN name ELSE dir \o <<"/">> \o name

----------------------------------------------------------------------------
(* Helpers.                                                                *)

\* allowed_file without its test of the extension.
allowed_file_any_extension(filename) == LastDot(filename) # 0

\* '.' in filename and filename.rsplit('.', 1)[1].lower() in ALLOWED_EXTENSIONS
allowed_file(filename) ==
    /\ LastDot(filename) # 0
    /\ lower(SubSeq(filename, LastDot(filename) + 1, Len(filename))) \in ALLOWED_EXTENSIONS

\* The repair with count=1: only the first match is replaced.
split_camel_case_once(text) ==
    LET places == {i \in 1..(Len(text) - 1) : IsLower(text[i]) /\ IsUpper(text[i + 1])}
    IN  IF places = {} THEN text
        ELSE SubSeq(text, 1, Min(places)) \o <<" ">>
             \o SubSeq(text, Min(places) + 1, Len(text))

\* re.sub(r'([a-z])([A-Z])', r'\1 \2', text): the matches cannot overlap, so a
\* space follows every [a-z] that stands right before an [A-Z].
RECURSIVE split_camel_case(_)
split_camel_case(text) ==
    IF Len(text) < 2 THEN text
    ELSE (IF IsLower(text[1]) /\ IsUpper(text[2]) THEN <<text[1], " ">> ELSE <<text[1]>>)
         \o split_camel_case(Tail(text))

\* textract.process chooses its parser by the extension and raises
\* ExtensionNotSupported for one it has no parser for; of the extensions the
\* model's names carry it has a parser for these.
TEXTRACT_EXTENSIONS == {E_doc, <<"t", "x", "t">>}

\* What a raising call yields.
Raised == [raised |-> TRUE, text |-> <<>>, has_photo |-> FALSE]

\* extract_text_and_photo(path), files being the file system: path to stored
\* document.  A document is [text, image, corrupt]: the text its pages or
\* paragraphs hold, whether it embeds an image, whether the parsing library
\* rejects it.  path.rsplit('.', 1)[1] raises IndexError when path has no '.'.
extract_text_and_photo(path, files) ==
    IF LastDot(path) = 0 THEN Raised
    ELSE LET ext == lower(SubSeq(path, LastDot(path) + 1, Len(path)))
         IN  IF path \notin DOMAIN files \/ files[path].corrupt THEN Raised
             ELSE IF ext = E_pdf \/ ext = E_docx
             THEN [raised |-> FALSE,
                   text |-> split_camel_case(files[path].text),
                   has_photo |-> files[path].image]
             ELSE IF ext \in TEXTRACT_EXTENSIONS
             THEN [raised |-> FALSE,
                   text |-> split_camel_case(files[path].text),
                   has_photo |-> FALSE]
             ELSE Raised

W_objective == <<"o", "b", "j", "e", "c", "t", "i", "v", "e">>

W_summary == <<"s", "u", "m", "m", "a", "r", "y">>

W_skill == <<"s", "k", "i", "l", "l">>

W_skills == <<"s", "k", "i", "l", "l", "s">>

W_education == <<"e", "d", "u", "c", "a", "t", "i", "o", "n">>

W_btech == <<"b", "t", "e", "c", "h">>

W_b_tech == <<"b", ".", "t", "e", "c", "h">>

W_bachelor == <<"b", "a", "c", "h", "e", "l", "o", "r">>

W_master == <<"m", "a", "s", "t", "e", "r">>

W_phd == <<"p", "h", "d">>

W_project == <<"p", "r", "o", "j", "e", "c", "t">>

W_projects == <<"p", "r", "o", "j", "e", "c", "t", "s">>

\* re.search(r'\bw\b', t) for a w that begins and ends with a word character:
\* w stands in t with no word character right before or right after it.
SearchWord(t, w) ==
    \E i \in 1..(Len(t) - Len(w) + 1) :
        /\ SubSeq(t, i, i + Len(w) - 1) = w
        /\ (i = 1 \/ ~IsWord(t[i - 1]))
        /\ (i + Len(w) - 1 = Len(t) \/ ~IsWord(t[i + Len(w)]))

\* re.search(r'[\w.+-]+@[\w-]+\.[\w.-]+', text)
SearchEmail(text) ==
    \E i \in 2..Len(text) :
        /\ text[i] = "@"
        /\ (IsWord(text[i - 1]) \/ text[i - 1] \in {".", "+", "-"})
        /\ \E j \in (i + 2)..(Len(text) - 1) :
               /\ \A k \in (i + 1)..(j - 1) : IsWord(text[k]) \/ text[k] = "-"
               /\ text[j] = "."
               /\ (IsWord(text[j + 1]) \/ text[j + 1] \in {".", "-"})

\* re.search(r'\+?\d[\d ()-]{7,}', text)
SearchPhone(text) ==
    \E i \in 1..(Len(text) - 7) :
        /\ IsDigit(text[i])
        /\ \A k \in (i + 1)..(i + 7) : IsDigit(text[k]) \/ text[k] \in {" ", "(", ")", "-"}

CRITERIA == {"Profile Photo", "Summary", "Skills", "Education", "Projects", "Contact Info"}

detect_criteria(text, has_photo) ==
    LET t == lower(text)
    IN  [c \in CRITERIA |->
            CASE c = "Profile Photo" -> has_photo
              [] c = "Summary" -> SearchWord(t, W_objective) \/ SearchWord(t, W_summary)
              [] c = "Skills" -> SearchWord(t, W_skill) \/ SearchWord(t, W_skills)
              [] c = "Education" ->
                     \/ SearchWord(t, W_education) \/ SearchWord(t, W_btech)
                     \/ SearchWord(t, W_b_tech) \/ SearchWord(t, W_bachelor)
                     \/ SearchWord(t, W_master) \/ SearchWord(t, W_phd)
              [] c = "Projects" -> SearchWord(t, W_project) \/ SearchWord(t, W_projects)
              [] c = "Contact Info" -> SearchEmail(text) \/ SearchPhone(text)]

\* sum(criteria.values())
sum_criteria(criteria) == Cardinality({c \in DOMAIN criteria : criteria[c]})

----------------------------------------------------------------------------
(* The generative-text provider and the parsers of its replies.            *)

GEMINI_ERROR_PREFIX == <<"U+274C", " ", "G", "e", "m", "i", "n", "i", " ", "A", "P", "I",
                         " ", "E", "r", "r", "o", "r", ":", " ">>

NOT_IDENTIFIED == <<"N", "o", "t", " ", "i", "d", "e", "n", "t", "i", "f", "i", "e", "d">>

W_industry == <<"i", "n", "d", "u", "s", "t", "r", "y">>

W_field == <<"f", "i", "e", "l", "d">>

W_score == <<"s", "c", "o", "r", "e">>

W_100 == <<"1", "0", "0">>

\* text[:3000] is what a prompt carries of the resume.
PROMPT_CHARS == 3000

\* The prompt of one of the three tasks: its fixed instructions (named by the
\* task) followed by text[:3000].
prompt_of(task, text) == [task |-> task, text |-> Take(text, PROMPT_CHARS)]

\* ask_gemini without its try: the provider's error goes up to the caller.
ask_gemini_reraising(prompt, outcome) ==
    [raised |-> outcome.raised, value |-> outcome.text]

\* ask_gemini(prompt), outcome being what model.generate_content(prompt) and
\* response.text do: return outcome.text, or raise an error whose message is
\* outcome.text.  Either way ask_gemini returns a string.
ask_gemini(prompt, outcome) ==
    [raised |-> FALSE,
     value |-> IF outcome.raised THEN GEMINI_ERROR_PREFIX \o outcome.text
               ELSE outcome.text]

\* The first index at or after i of a character of s that \s does not match,
\* Len(s) + 1 when there is none: where \s* stops.
SkipSpace(s, i) ==
    LET rest == {j \in i..Len(s) : ~IsSpace(s[j])}
    IN  IF rest = {} THEN Len(s) + 1 ELSE Min(rest)

\* \s*/\s*100 matches s from index p.
ScoreTail(s, p) ==
    LET a == SkipSpace(s, p)
        b == SkipSpace(s, a + 1)
    IN  /\ a <= Len(s)
        /\ s[a] = "/"
        /\ b + 2 <= Len(s)
        /\ SubSeq(s, b, b + 2) = W_100

\* The numbers k of digits with which Score\s*:\s*(\d{1,3})\s*/\s*100
\* (re.IGNORECASE) matches s from index i.
ScoreDigitCounts(s, i) ==
    LET c == SkipSpace(s, i + 5)
        d == SkipSpace(s, c + 1)
    IN  IF /\ i + 4 <= Len(s)
           /\ lower(SubSeq(s, i, i + 4)) = W_score
           /\ c <= Len(s)
           /\ s[c] = ":"
        THEN {k \in 1..3 : /\ d + k - 1 <= Len(s)
                           /\ \A x \in d..(d + k - 1) : IsDigit(s[x])
                           /\ ScoreTail(s, d + k)}
        ELSE {}

\* re.search(r"Score\s*:\s*(\d{1,3})\s*/\s*100", ln, re.IGNORECASE): whether
\* it matches, and group 1 of the leftmost match (\d{1,3} is greedy).
search_score(ln) ==
    LET starts == {i \in DOMAIN ln : ScoreDigitCounts(ln, i) # {}}
    IN  IF starts = {} THEN [found |-> FALSE, group |-> <<>>]
        ELSE LET i == Min(starts)
                 d == SkipSpace(ln, SkipSpace(ln, i + 5) + 1)
                 k == Max(ScoreDigitCounts(ln, i))
             IN  [found |-> TRUE, group |-> SubSeq(ln, d, d + k - 1)]

\* for ln in lines: m = re.search(...); if m: score = int(m.group(1)); break
RECURSIVE first_score(_)
first_score(lines) ==
    IF lines = <<>> THEN 0
    ELSE IF search_score(lines[1]).found THEN int(search_score(lines[1]).group)
    ELSE first_score(Tail(lines))

\* suggestions[:5]
SUGGESTIONS_KEPT == 5

\* job_roles[:5]
JOB_ROLES_KEPT == 5

\* errors[:10]
ERRORS_SHOWN == 10

\* score_and_suggest calling the provider itself, not through ask_gemini.
score_and_suggest_unguarded(text, outcome) ==
    LET lines == splitlines(outcome.text)
    IN  [raised |-> outcome.raised,
         score |-> first_score(lines),
         suggestions |-> Take(dash_items(lines), SUGGESTIONS_KEPT)]

score_and_suggest(text, outcome) ==
    LET r == ask_gemini(prompt_of("score_and_suggest", text), outcome)
        lines == splitlines(r.value)
    IN  IF r.raised THEN [raised |-> TRUE, score |-> 0, suggestions |-> <<>>]
        ELSE [raised |-> FALSE,
              score |-> first_score(lines),
              suggestions |-> Take(dash_items(lines), SUGGESTIONS_KEPT)]

grammar_errors(text, outcome) ==
    LET r == ask_gemini(prompt_of("grammar_errors", text), outcome)
    IN  IF r.raised THEN [raised |-> TRUE, errors |-> <<>>]
        ELSE [raised |-> FALSE, errors |-> dash_items(splitlines(r.value))]

\* The loop with a break at the first field line.
RECURSIVE scan_field_first(_, _)
scan_field_first(lines, field) ==
    IF lines = <<>> THEN field
    ELSE IF /\ ~startswith_dash(strip(lines[1]))
            /\ \/ Contains(lower(lines[1]), W_industry)
               \/ Contains(lower(lines[1]), W_field)
    THEN strip(lines[1])
    ELSE scan_field_first(Tail(lines), field)

\* The loop of recommend_jobs over the lines that are not dash-prefixed: each
\* line holding 'industry' or 'field' (in ln.lower()) sets field = ln.strip().
RECURSIVE scan_field(_, _)
scan_field(lines, field) ==
    IF lines = <<>> THEN field
    ELSE scan_field(Tail(lines),
                    IF /\ ~startswith_dash(strip(lines[1]))
                       /\ \/ Contains(lower(lines[1]), W_industry)
                          \/ Contains(lower(lines[1]), W_field)
                    THEN strip(lines[1])
                    ELSE field)

recommend_jobs(text, outcome) ==
    LET r == ask_gemini(prompt_of("recommend_jobs", text), outcome)
        lines == splitlines(r.value)
    IN  IF r.raised THEN [raised |-> TRUE, job_roles |-> <<>>, field |-> <<>>]
        ELSE [raised |-> FALSE,
              job_roles |-> Take(dash_items(lines), JOB_ROLES_KEPT),
              field |-> scan_field(lines, NOT_IDENTIFIED)]

\* The results view given errors, not errors[:10].
results_view_all_errors(score, criteria, errors, suggestions, job_roles, job_field) ==
    [score |-> score, criteria |-> criteria, errors |-> errors,
     suggestions |-> suggestions, job_roles |-> job_roles, job_field |-> job_field]

\* The values render_template('results.html', ...) is given by analysis().
results_view(score, criteria, errors, suggestions, job_roles, job_field) ==
    [score |-> score, criteria |-> criteria, errors |-> Take(errors, ERRORS_SHOWN),
     suggestions |-> suggestions, job_roles |-> job_roles, job_field |-> job_field]

----------------------------------------------------------------------------
(* The routes.                                                             *)

\* werkzeug's secure_filename, step 1: NFKD-normalise and drop what is not
\* ASCII (an accented letter keeps its base letter), '/' becoming ' '.
RECURSIVE ascii_fold(_)
ascii_fold(s) ==
    IF s = <<>> THEN <<>>
    ELSE (CASE s[1] = "U+00E9" -> <<"e">>
            [] s[1] = "U+00C9" -> <<"E">>
            [] s[1] \in {"U+00DF", "U+274C"} -> <<>>
            [] s[1] = "/" -> <<" ">>
            [] OTHER -> <<s[1]>>)
         \o ascii_fold(Tail(s))

\* Step 2: "_".join(s.split()), for an s with no white space at either end.
RECURSIVE join_words(_)
join_words(s) ==
    IF s = <<>> THEN <<>>
    ELSE IF IsSpace(s[1])
    THEN (IF Len(s) >= 2 /\ IsSpace(s[2]) THEN <<>> ELSE <<"_">>) \o join_words(Tail(s))
    ELSE <<s[1]>> \o join_words(Tail(s))

\* Step 3: the characters [^A-Za-z0-9_.-] are removed.
RECURSIVE ascii_strip(_)
ascii_strip(s) ==
    IF s = <<>> THEN <<>>
    ELSE (IF IsLower(s[1]) \/ IsUpper(s[1]) \/ IsDigit(s[1]) \/ s[1] \in {"_", ".", "-"}
          THEN <<s[1]>> ELSE <<>>)
         \o ascii_strip(Tail(s))

\* secure_filename(filename), on a system whose only path separator is '/'.
secure_filename(filename) ==
    StripSet(ascii_strip(join_words(strip(ascii_fold(filename)))), {".", "_"})

\* A save that keeps the file already stored at path.
save_unless_stored(files, path, content) ==
    [p \in DOMAIN files \cup {path} |-> IF p \in DOMAIN files THEN files[p] ELSE content]

\* f.save(path): the file system with content stored at path, whatever was there.
save(files, path, content) ==
    [p \in DOMAIN files \cup {path} |-> IF p = path THEN content ELSE files[p]]

NoDocument == [text |-> <<>>, image |-> FALSE, corrupt |-> FALSE]

\* request.files.get('resume') when the form carries no such part: None.
NoFile == [present |-> FALSE, filename |-> <<>>, content |-> NoDocument]

\* request.args.get('filename') when the query carries no such parameter: None.
NoArg == [present |-> FALSE, value |-> <<>>]

\* A query parameter that is given.
Arg(value) == [present |-> TRUE, value |-> value]

\* The response of the error handler of 400 and 502.
handle_errors(code, message) ==
    [code |-> code, view |-> "results.html",
     data |-> [score |-> 0, criteria |-> <<>>, errors |-> <<message>>,
               suggestions |-> <<>>]]

\* An exception no handler catches.
InternalServerError == [code |-> 500, view |-> "error", data |-> <<>>]

\* The gate with a threshold of 2.
is_resume_of_two(criteria) == ~(sum_criteria(criteria) < 2)

\* if sum(criteria.values()) < 3: abort(400, ...)
is_resume(criteria) == ~(sum_criteria(criteria) < 3)

\* The response of upload() to the uploaded file.
upload_response(file) ==
    IF ~file.present \/ file.filename = <<>>
    THEN handle_errors(400, "No file selected")
    ELSE IF ~allowed_file(file.filename)
    THEN handle_errors(400, "Invalid file type")
    ELSE [code |-> 302, view |-> "analysis", data |-> secure_filename(file.filename)]

----------------------------------------------------------------------------
(* Inputs.                                                                 *)

Clients == {1, 2}

\* The requests the clients send in all.
MaxRequests == 3

F_a_pdf == <<"a", ".", "p", "d", "f">>

F_slash_a_pdf == <<"/", "a", ".", "p", "d", "f">>

F_a_DOC == <<"a", ".", "D", "O", "C">>

F_dot_pdf == <<".", "p", "d", "f">>

F_a_exe == <<"a", ".", "e", "x", "e">>

F_a == <<"a">>

T_photo == <<"m", "y", "S", "k", "i", "l", "l", "s", " ",
             "p", "r", "o", "j", "e", "c", "t", "s">>

T_cv == <<"S", "u", "m", "m", "a", "r", "y", " ", "s", "k", "i", "l", "l", "s", " ",
          "p", "h", "d", " ", "a", "@", "b", ".", "c", "o">>

\* A picture page: two criteria in its text (once its camel case is split) and
\* an image, which only the pdf and docx extraction sees.
D_photo == [text |-> T_photo, image |-> TRUE, corrupt |-> FALSE]

\* A resume: four criteria in its text.
D_cv == [text |-> T_cv, image |-> FALSE, corrupt |-> FALSE]

\* A file no library can parse.
D_corrupt == [text |-> <<>>, image |-> FALSE, corrupt |-> TRUE]

File(filename, content) == [present |-> TRUE, filename |-> filename, content |-> content]

\* The file parts of the upload requests.
UPLOADED_FILES ==
    {NoFile, File(<<>>, D_cv), File(F_a, D_cv), File(F_a_exe, D_cv),
     File(F_a_pdf, D_cv), File(F_a_pdf, D_photo), File(F_slash_a_pdf, D_corrupt),
     File(F_a_DOC, D_photo), File(F_dot_pdf, D_cv)}

\* The filename parameters of the analysis requests a client writes itself.
FILENAME_ARGS == {NoArg, Arg(<<>>), Arg(F_a_pdf), Arg(F_a_exe)}

R_good == <<"S", "c", "o", "r", "e", ":", " ", "8", "5", "/", "1", "0", "0", "\n",
            "-", " ", "a", "d", "d", " ", "m", "e", "t", "r", "i", "c", "s", "\n",
            "-", " ", "D", "a", "t", "a", " ", "A", "n", "a", "l", "y", "s", "t", "\n",
            "F", "i", "e", "l", "d", ":", " ", "I", "T">>

D_timeout == <<"t", "i", "m", "e", "o", "u", "t">>

\* What the provider does with a prompt: reply, or raise.
OUTCOMES == {[raised |-> FALSE, text |-> R_good], [raised |-> TRUE, text |-> D_timeout]}

----------------------------------------------------------------------------
(* The server and its clients.  uploads is the uploads directory (path to   *)
(* document); pc[c] is "idle" or the provider call the analysis request of  *)
(* client c is at, cur[c] the local variables of c's last analysis request, *)
(* resp[c] the last response c received (code 0 while the request is being  *)
(* handled), calls[c] the provider calls of c's last analysis request,      *)
(* extracted the paths extract_text_and_photo was given so far.             *)

NoRequest == [filename |-> <<>>, origin |-> NoFile, read |-> NoDocument, text |-> <<>>,
              criteria |-> <<>>, score |-> 0, suggestions |-> <<>>, errors |-> <<>>]

NoResponse == [req |-> 0, route |-> "none", input |-> NoArg,
               code |-> 0, view |-> "none", data |-> <<>>]

\* out and doc, where no parser or extraction has run alone.
NoOutput == [op |-> "none"]

NoStored == [name |-> <<>>, content |-> NoDocument]

\* Response r, as the answer to request number n of the given route and input.
Answer(n, route, input, r) ==
    [req |-> n, route |-> route, input |-> input,
     code |-> r.code, view |-> r.view, data |-> r.data]

Init ==
    /\ uploads = <<>>
    /\ pc = [c \in Clients |-> "idle"]
    /\ cur = [c \in Clients |-> NoRequest]
    /\ resp = [c \in Clients |-> NoResponse]
    /\ calls = [c \in Clients |-> <<>>]
    /\ extracted = {}
    /\ nreq = 0
    /\ raw = <<>>
    /\ doc = NoStored
    /\ out = NoOutput

\* GET /
index(c) ==
    /\ pc[c] = "idle"
    /\ nreq < MaxRequests
    /\ nreq' = nreq + 1
    /\ resp' = [resp EXCEPT ![c] = Answer(nreq + 1, "index", NoArg,
                   [code |-> 200, view |-> "index.html", data |-> <<>>])]
    /\ UNCHANGED <<uploads, pc, cur, calls, extracted, raw, doc, out>>

\* POST /upload with the given file part.
upload(c, file) ==
    /\ pc[c] = "idle"
    /\ nreq < MaxRequests
    /\ nreq' = nreq + 1
    /\ LET r == upload_response(file)
       IN  /\ resp' = [resp EXCEPT ![c] = Answer(nreq + 1, "upload", file, r)]
           /\ uploads' = IF r.code = 302
                         THEN save(uploads, path_join(UPLOAD_FOLDER, r.data), file.content)
                         ELSE uploads
    /\ UNCHANGED <<pc, cur, calls, extracted, raw, doc, out>>

\* GET /analysis with the filename parameter arg, up to the first provider call.  origin is the
\* file whose upload redirected the client here (NoFile when none did).
analysis(c, arg, origin) ==
    /\ pc[c] = "idle"
    /\ nreq < MaxRequests
    /\ nreq' = nreq + 1
    /\ calls' = [calls EXCEPT ![c] = <<>>]
    /\ IF ~arg.present \/ arg.value = <<>>
       THEN /\ resp' = [resp EXCEPT ![c] = Answer(nreq + 1, "analysis", arg,
                           handle_errors(400, "Filename missing"))]
            /\ cur' = [cur EXCEPT ![c] = NoRequest]
            /\ UNCHANGED <<pc, extracted>>
       ELSE LET fname == arg.value
                path == path_join(UPLOAD_FOLDER, fname)
                ex == extract_text_and_photo(path, uploads)
                criteria == IF ex.raised THEN <<>>
                            ELSE detect_criteria(ex.text, ex.has_photo)
            IN  /\ extracted' = extracted \cup {path}
                /\ cur' = [cur EXCEPT ![c] =
                              [filename |-> fname, origin |-> origin,
                               read |-> IF path \in DOMAIN uploads THEN uploads[path]
                                        ELSE NoDocument,
                               text |-> ex.text, criteria |-> criteria, score |-> 0,
                               suggestions |-> <<>>, errors |-> <<>>]]
                /\ IF ex.raised
                   THEN /\ resp' = [resp EXCEPT ![c] = Answer(nreq + 1, "analysis", arg,
                                       InternalServerError)]
                        /\ UNCHANGED pc
                   ELSE IF ~is_resume(criteria)
                   THEN /\ resp' = [resp EXCEPT ![c] = Answer(nreq + 1, "analysis", arg,
                                       handle_errors(400, "Uploaded file doesn't appear to be a resume."))]
                        /\ UNCHANGED pc
                   ELSE /\ resp' = [resp EXCEPT ![c] = Answer(nreq + 1, "analysis", arg,
                                       [code |-> 0, view |-> "pending", data |-> <<>>])]
                        /\ pc' = [pc EXCEPT ![c] = "score_and_suggest"]
    /\ UNCHANGED <<uploads, raw, doc, out>>

\* The client follows the redirect that answered its upload.
follow_redirect(c) ==
    /\ resp[c].code = 302
    /\ analysis(c, Arg(resp[c].data), resp[c].input)

\* The client requests the analysis of a name of its own choice.
request_analysis(c, arg) == analysis(c, arg, NoFile)

\* except Exception as e: abort(502, f"AI model error: {e}")
provider_failed(c) ==
    /\ resp' = [resp EXCEPT ![c] = Answer(resp[c].req, "analysis", resp[c].input,
                   handle_errors(502, "AI model error"))]
    /\ pc' = [pc EXCEPT ![c] = "idle"]
    /\ UNCHANGED cur

\* score, suggestions = score_and_suggest(text)
call_score_and_suggest(c, outcome) ==
    /\ pc[c] = "score_and_suggest"
    /\ calls' = [calls EXCEPT ![c] = Append(@, [task |-> "score_and_suggest",
                                                failed |-> outcome.raised])]
    /\ LET r == score_and_suggest(cur[c].text, outcome)
       IN  IF r.raised THEN provider_failed(c)
           ELSE /\ cur' = [cur EXCEPT ![c].score = r.score,
                                      ![c].suggestions = r.suggestions]
                /\ pc' = [pc EXCEPT ![c] = "grammar_errors"]
                /\ UNCHANGED resp
    /\ UNCHANGED <<uploads, extracted, nreq, raw, doc, out>>

\* errors = grammar_errors(text)
call_grammar_errors(c, outcome) ==
    /\ pc[c] = "grammar_errors"
    /\ calls' = [calls EXCEPT ![c] = Append(@, [task |-> "grammar_errors",
                                                failed |-> outcome.raised])]
    /\ LET r == grammar_errors(cur[c].text, outcome)
       IN  IF r.raised THEN provider_failed(c)
           ELSE /\ cur' = [cur EXCEPT ![c].errors = r.errors]
                /\ pc' = [pc EXCEPT ![c] = "recommend_jobs"]
                /\ UNCHANGED resp
    /\ UNCHANGED <<uploads, extracted, nreq, raw, doc, out>>

\* job_roles, job_field = recommend_jobs(text), and the rendering of the results.
call_recommend_jobs(c, outcome) ==
    /\ pc[c] = "recommend_jobs"
    /\ calls' = [calls EXCEPT ![c] = Append(@, [task |-> "recommend_jobs",
                                                failed |-> outcome.raised])]
    /\ LET r == recommend_jobs(cur[c].text, outcome)
       IN  IF r.raised THEN provider_failed(c)
           ELSE /\ resp' = [resp EXCEPT ![c] = Answer(resp[c].req, "analysis", resp[c].input,
                               [code |-> 200, view |-> "results.html",
                                data |-> results_view(cur[c].score, cur[c].criteria,
                                                      cur[c].errors, cur[c].suggestions,
                                                      r.job_roles, r.field)])]
                /\ pc' = [pc EXCEPT ![c] = "idle"]
                /\ UNCHANGED cur
    /\ UNCHANGED <<uploads, extracted, nreq, raw, doc, out>>

Next ==
    \/ \E c \in Clients : index(c)
    \/ \E c \in Clients, file \in UPLOADED_FILES : upload(c, file)
    \/ \E c \in Clients : follow_redirect(c)
    \/ \E c \in Clients, arg \in FILENAME_ARGS : request_analysis(c, arg)
    \/ \E c \in Clients, outcome \in OUTCOMES : call_score_and_suggest(c, outcome)
    \/ \E c \in Clients, outcome \in OUTCOMES : call_grammar_errors(c, outcome)
    \/ \E c \in Clients, outcome \in OUTCOMES : call_recommend_jobs(c, outcome)

Spec == Init /\ [][Next]_vars

----------------------------------------------------------------------------
(* The parsers alone, on the replies of the provider: raw is what the      *)
(* provider does with the prompt, out what the parser returned and what    *)
(* the results view shows of it.                                           *)

L_score85 == <<"S", "c", "o", "r", "e", ":", " ", "8", "5", "/", "1", "0", "0">>

L_score999 == <<"s", "c", "o", "r", "e", ":", "9", "9", "9", " ", "/", " ", "1", "0", "0">>

L_score7 == <<"S", "c", "o", "r", "e", ":", " ", "7", "/", "1", "0", "0">>

L_score1234 == <<"S", "c", "o", "r", "e", ":", " ", "1", "2", "3", "4", "/", "1", "0", "0">>

L_dash_a == <<"-", " ", "a">>

L_dash_b == <<" ", "-", "b", " ">>

L_field == <<"F", "i", "e", "l", "d", ":", " ", "X">>

L_dash_field == <<"-", " ", "f", "i", "e", "l", "d">>

L_industry == <<" ", "I", "N", "D", "U", "S", "T", "R", "Y">>

\* The lines of the short replies.
SHORT_LINES == {L_score85, L_score999, L_score7, L_score1234, L_dash_a, L_dash_b,
                L_field, L_dash_field, L_industry}

\* The lines of the long replies.
LONG_LINES == {L_dash_a, L_dash_b}

\* The longest short reply, in lines.
MaxShortLines == 3

\* The longest long reply, in lines.
MaxLongLines == 11

\* The replies: every short reply, and every longer list of bullet points.
REPLIES ==
    {join_lines(ls) : ls \in UNION {[1..n -> SHORT_LINES] : n \in 0..MaxShortLines}}
    \cup
    {join_lines(ls) : ls \in UNION {[1..n -> LONG_LINES] :
                                       n \in (MaxShortLines + 1)..MaxLongLines}}

InitParse ==
    /\ raw \in [raised : BOOLEAN, text : REPLIES]
    /\ out = NoOutput
    /\ uploads = <<>>
    /\ pc = [c \in Clients |-> "idle"]
    /\ cur = [c \in Clients |-> NoRequest]
    /\ resp = [c \in Clients |-> NoResponse]
    /\ calls = [c \in Clients |-> <<>>]
    /\ extracted = {}
    /\ nreq = 0
    /\ doc = NoStored

\* score_and_suggest on the provider's reply, and the score and suggestions
\* analysis() renders from it.
parse_score_and_suggest ==
    /\ out = NoOutput
    /\ LET r == score_and_suggest(<<>>, raw)
       IN  out' = [op |-> "score_and_suggest", returned |-> r,
                   view |-> results_view(r.score, <<>>, <<>>, r.suggestions, <<>>, <<>>)]
    /\ UNCHANGED <<uploads, pc, cur, resp, calls, extracted, nreq, raw, doc>>

\* grammar_errors on the provider's reply, and the errors analysis() renders.
parse_grammar_errors ==
    /\ out = NoOutput
    /\ LET r == grammar_errors(<<>>, raw)
       IN  out' = [op |-> "grammar_errors", returned |-> r,
                   view |-> results_view(0, <<>>, r.errors, <<>>, <<>>, <<>>)]
    /\ UNCHANGED <<uploads, pc, cur, resp, calls, extracted, nreq, raw, doc>>

\* recommend_jobs on the provider's reply, and the roles and field analysis() renders.
parse_recommend_jobs ==
    /\ out = NoOutput
    /\ LET r == recommend_jobs(<<>>, raw)
       IN  out' = [op |-> "recommend_jobs", returned |-> r,
                   view |-> results_view(0, <<>>, <<>>, <<>>, r.job_roles, r.field)]
    /\ UNCHANGED <<uploads, pc, cur, resp, calls, extracted, nreq, raw, doc>>

NextParse ==
    \/ parse_score_and_suggest
    \/ parse_grammar_errors
    \/ parse_recommend_jobs

SpecParse == InitParse /\ [][NextParse]_vars

----------------------------------------------------------------------------
(* The extraction alone: one stored document, whose text is any string of  *)
(* a small alphabet.                                                       *)

\* The characters of the document texts.
TEXT_CHARS == {"a", "z", "B", " ", "U+00E9", "U+00C9"}

\* The longest document text, in characters.
MaxTextLen == 4

TEXTS == UNION {[1..n -> TEXT_CHARS] : n \in 0..MaxTextLen}

F_a_docx == <<"a", ".", "d", "o", "c", "x">>

F_a_doc == <<"a", ".", "d", "o", "c">>

InitExtract ==
    /\ doc \in [name : {F_a_pdf, F_a_docx, F_a_doc},
                content : [text : TEXTS, image : BOOLEAN, corrupt : {FALSE}]]
    /\ uploads = save(<<>>, path_join(UPLOAD_FOLDER, doc.name), doc.content)
    /\ out = NoOutput
    /\ pc = [c \in Clients |-> "idle"]
    /\ cur = [c \in Clients |-> NoRequest]
    /\ resp = [c \in Clients |-> NoResponse]
    /\ calls = [c \in Clients |-> <<>>]
    /\ extracted = {}
    /\ nreq = 0
    /\ raw = <<>>

\* text, has_photo = extract_text_and_photo(path) on the stored document.
extract ==
    /\ out = NoOutput
    /\ LET path == path_join(UPLOAD_FOLDER, doc.name)
       IN  /\ out' = [op |-> "extract_text_and_photo",
                      returned |-> extract_text_and_photo(path, uploads)]
           /\ extracted' = extracted \cup {path}
    /\ UNCHANGED <<uploads, pc, cur, resp, calls, nreq, raw, doc>>

NextExtract == extract

SpecExtract == InitExtract /\ [][NextExtract]_vars

----------------------------------------------------------------------------
(* Properties.                                                             *)

\* The extension of a file name is ext: the text after the name's last dot,
\* read without regard to case.
ExtensionIs(name, ext) ==
    \E i \in DOMAIN name :
        /\ name[i] = "."
        /\ \A j \in (i + 1)..Len(name) : name[j] # "."
        /\ lower(SubSeq(name, i + 1, Len(name))) = ext

HasAllowedExtension(name) ==
    \E ext \in {<<"p", "d", "f">>, <<"d", "o", "c">>, <<"d", "o", "c", "x">>} :
        ExtensionIs(name, ext)

\* The number of criteria that are true.
TrueCount(criteria) == Cardinality({k \in DOMAIN criteria : criteria[k] = TRUE})

\* detect_criteria ran in the last analysis request of client c.
Detected(c) == DOMAIN cur[c].criteria = CRITERIA

\* Client c's last response answers an analysis request that is over.
AnalysisOver(c) == resp[c].route = "analysis" /\ pc[c] = "idle"

\* Some provider call of c's last analysis request failed.
SomeCallFailed(c) == \E i \in DOMAIN calls[c] : calls[c][i].failed

\* C1: in every analysis request the provider is called only if at least 3 of
\* the six criteria that detect_criteria returned are true; with fewer than 3
\* the request ends with status 400 and without any provider call.
C1_GateBeforeProviderCalls ==
    \A c \in Clients :
        /\ (calls[c] # <<>> \/ pc[c] # "idle") =>
               Detected(c) /\ TrueCount(cur[c].criteria) >= 3
        /\ (resp[c].route = "analysis" /\ Detected(c) /\ TrueCount(cur[c].criteria) < 3) =>
               resp[c].code = 400 /\ calls[c] = <<>> /\ pc[c] = "idle"

\* C1's case: a document with exactly two criteria was rejected.
C1_Witness ==
    \E c \in Clients :
        /\ resp[c].route = "analysis"
        /\ Detected(c)
        /\ TrueCount(cur[c].criteria) = 2
        /\ resp[c].code = 400
        /\ calls[c] = <<>>

\* C2: whatever the requests, every file name extract_text_and_photo is given
\* has an extension of the allow-list {pdf, doc, docx}.
C2_ExtractionOnlyOfAllowedNames == \A path \in extracted : HasAllowedExtension(path)

\* The upload request carries no file, an empty file name, or a file name
\* whose extension is not of the allow-list.
BadUpload(file) ==
    ~file.present \/ file.filename = <<>> \/ ~HasAllowedExtension(file.filename)

\* The step is the handling of a request of client c.
Handles(c) == nreq' = nreq + 1 /\ resp'[c].req = nreq'

\* C3: an upload with no file, an empty file name or a disallowed extension is
\* answered 400 by the error view, and its handling writes no file (the
\* uploads directory is unchanged), issues no redirect and extracts nothing.
C3_BadUploadRejected ==
    [][\A c \in Clients :
           (Handles(c) /\ resp'[c].route = "upload" /\ BadUpload(resp'[c].input)) =>
               /\ resp'[c].code = 400
               /\ resp'[c].view = "results.html"
               /\ uploads' = uploads
               /\ extracted' = extracted
               /\ pc' = pc]_vars

\* C3's case: an upload of a file named a.exe was answered.
C3_Witness ==
    \E c \in Clients :
        /\ resp[c].route = "upload"
        /\ resp[c].input.present
        /\ resp[c].input.filename = <<"a", ".", "e", "x", "e">>
        /\ resp[c].code = 400
        /\ uploads = <<>>

\* C4: when the provider raises during a call of an analysis request, the
\* request does not end with status 502: it ends with the results view, which
\* shows what the parsers make of the error string (the defaults: score 0, no
\* suggestion, no error, no role, field "Not identified").
C4_ProviderErrorIsNotA502 ==
    \A c \in Clients :
        SomeCallFailed(c) =>
            /\ resp[c].code # 502
            /\ AnalysisOver(c) =>
                   /\ resp[c].code = 200
                   /\ resp[c].view = "results.html"
                   /\ calls[c][1].failed =>
                          resp[c].data.score = 0 /\ resp[c].data.suggestions = <<>>
                   /\ calls[c][2].failed => resp[c].data.errors = <<>>
                   /\ calls[c][3].failed =>
                          /\ resp[c].data.job_roles = <<>>
                          /\ resp[c].data.job_field = NOT_IDENTIFIED

\* C4's case: an analysis request whose three provider calls all failed is over.
C4_Witness ==
    \E c \in Clients :
        /\ AnalysisOver(c)
        /\ Len(calls[c]) = 3
        /\ \A i \in 1..3 : calls[c][i].failed
        /\ resp[c].code = 200

\* C5, as the specification states it: after a failed provider call no later
\* provider call of the request is issued.
C5_FailureAbortsTheRequest ==
    \A c \in Clients :
        \A i \in DOMAIN calls[c] : calls[c][i].failed => i = Len(calls[c])

TASK_ORDER == <<"score_and_suggest", "grammar_errors", "recommend_jobs">>

\* C5, amended: the provider calls of a request are issued one after the
\* other in the order score_and_suggest, grammar_errors, recommend_jobs, each
\* once at most (no retry), and a failed call aborts nothing: the request goes
\* on to the next call, and it is over only when all three were issued.
C5_CallsInOrderFailureDoesNotAbort ==
    \A c \in Clients :
        /\ Len(calls[c]) <= 3
        /\ \A i \in DOMAIN calls[c] : calls[c][i].task = TASK_ORDER[i]
        /\ pc[c] # "idle" => pc[c] = TASK_ORDER[Len(calls[c]) + 1]
        /\ (pc[c] = "idle" /\ calls[c] # <<>>) => Len(calls[c]) = 3

\* C5's case: the first call of a request failed and the two others followed.
C5_Witness ==
    \E c \in Clients :
        /\ Len(calls[c]) = 3
        /\ calls[c][1].failed
        /\ ~calls[c][2].failed
        /\ AnalysisOver(c)

\* C10: the stored files are keyed by the sanitized file name alone: an
\* accepted upload stores its content at uploads/<sanitized name> whatever
\* was stored there, and leaves the other stored files alone.
C10_LaterSaveOverwrites ==
    [][\A c \in Clients :
           (Handles(c) /\ resp'[c].route = "upload" /\ resp'[c].code = 302) =>
               LET path == UPLOAD_FOLDER \o <<"/">> \o resp'[c].data
               IN  /\ path \in DOMAIN uploads'
                   /\ uploads'[path] = resp'[c].input.content
                   /\ \A p \in DOMAIN uploads : p # path => uploads'[p] = uploads[p]]_vars

\* C10's case: the analysis request that followed the redirect of client c's
\* upload extracted and analysed the document client d uploaded under the
\* same sanitized name, not the one c uploaded.
C10_Witness ==
    \E c, d \in Clients :
        /\ c # d
        /\ AnalysisOver(c)
        /\ resp[c].code = 200
        /\ cur[c].origin.present
        /\ cur[c].read # cur[c].origin.content
        /\ resp[d].route = "upload"
        /\ resp[d].code = 302
        /\ resp[d].data = cur[c].filename
        /\ resp[d].input.content = cur[c].read

\* The string a parser receives from ask_gemini: the provider's reply, or the
\* error marker followed by the error's message.
Received == IF raw.raised THEN GEMINI_ERROR_PREFIX \o raw.text ELSE raw.text

\* A line is dash-prefixed: its first character that is not white space is '-'.
IsDashLine(ln) ==
    \E i \in DOMAIN ln : ln[i] = "-" /\ \A j \in 1..(i - 1) : IsSpace(ln[j])

\* A line holds "industry" or "field", in whatever case.
IsFieldLine(ln) ==
    \E i \in DOMAIN ln :
        \/ i + 7 <= Len(ln) /\ lower(SubSeq(ln, i, i + 7)) = <<"i", "n", "d", "u", "s", "t", "r", "y">>
        \/ i + 4 <= Len(ln) /\ lower(SubSeq(ln, i, i + 4)) = <<"f", "i", "e", "l", "d">>

\* The k-th element of a set of numbers, in increasing order.
Nth(S, k) == CHOOSE x \in S : Cardinality({y \in S : y < x}) = k - 1

\* items is the first `cap` dash-prefixed lines of lines (all of them when
\* there are fewer), in their order, each without the dashes and the white
\* space at its ends.
IsPrefixOfDashLines(items, lines, cap) ==
    LET dashed == {i \in DOMAIN lines : IsDashLine(lines[i])}
    IN  /\ Len(items) = IF Cardinality(dashed) < cap THEN Cardinality(dashed) ELSE cap
        /\ \A k \in DOMAIN items :
               items[k] = strip(strip_dash_space(lines[Nth(dashed, k)]))

\* C6, as the specification states it: the field recommend_jobs returns is the
\* first line holding "industry" or "field", dash-prefixed or not (the line
\* itself, or the line without the white space at its ends), and it is
\* "Not identified" exactly when no line holds either word.
C6_FieldIsFirstFieldLine ==
    out.op = "recommend_jobs" =>
        LET lines == splitlines(Received)
            hits == {i \in DOMAIN lines : IsFieldLine(lines[i])}
        IN  /\ (out.returned.field = NOT_IDENTIFIED) <=> (hits = {})
            /\ hits # {} => out.returned.field \in {lines[Min(hits)], strip(lines[Min(hits)])}

\* C6, amended: the field recommend_jobs returns is the last line that is not
\* dash-prefixed and holds "industry" or "field" (in whatever case), without
\* the white space at its ends; it is "Not identified" exactly when no line
\* that is not dash-prefixed holds either word.
C6_FieldIsLastUndashedFieldLine ==
    out.op = "recommend_jobs" =>
        LET lines == splitlines(Received)
            hits == {i \in DOMAIN lines : IsFieldLine(lines[i]) /\ ~IsDashLine(lines[i])}
        IN  /\ (out.returned.field = NOT_IDENTIFIED) <=> (hits = {})
            /\ hits # {} => out.returned.field = strip(lines[Max(hits)])
            /\ out.view.job_field = out.returned.field

\* C6's case: a reply with two field lines that are not dash-prefixed, and a
\* dash-prefixed one after them.
C6_Witness ==
    /\ out.op = "recommend_jobs"
    /\ ~raw.raised
    /\ LET lines == splitlines(raw.text)
       IN  /\ Len(lines) = 3
           /\ IsFieldLine(lines[1]) /\ ~IsDashLine(lines[1])
           /\ IsFieldLine(lines[2]) /\ ~IsDashLine(lines[2])
           /\ lines[1] # lines[2]
           /\ IsFieldLine(lines[3]) /\ IsDashLine(lines[3])
           /\ out.returned.field = strip(lines[2])

\* C7: the score score_and_suggest returns is that of the first line the
\* score pattern matches, 0 when it matches no line, and it lies in 0..100.
C7_ScoreWithin0To100 ==
    out.op = "score_and_suggest" =>
        LET lines == splitlines(Received)
            hits == {i \in DOMAIN lines : search_score(lines[i]).found}
        IN  /\ out.returned.score = IF hits = {} THEN 0
                                    ELSE int(search_score(lines[Min(hits)]).group)
            /\ out.returned.score \in 0..100

\* C8: the results view shows at most 5 suggestions, at most 5 job roles and
\* at most 10 grammar errors, each list being the first dash-prefixed lines
\* of its reply, in the reply's order.
C8_ListsAreCappedPrefixes ==
    LET lines == splitlines(Received)
    IN  /\ out.op = "score_and_suggest" =>
               /\ Len(out.view.suggestions) <= 5
               /\ IsPrefixOfDashLines(out.view.suggestions, lines, 5)
        /\ out.op = "recommend_jobs" =>
               /\ Len(out.view.job_roles) <= 5
               /\ IsPrefixOfDashLines(out.view.job_roles, lines, 5)
        /\ out.op = "grammar_errors" =>
               /\ Len(out.view.errors) <= 10
               /\ IsPrefixOfDashLines(out.view.errors, lines, 10)

\* C8's case: a reply of 11 bullet points, not all the same, of which the
\* view shows the first 10 as grammar errors.
C8_Witness ==
    /\ out.op = "grammar_errors"
    /\ ~raw.raised
    /\ Len(splitlines(raw.text)) = 11
    /\ Len(out.returned.errors) = 11
    /\ out.returned.errors[1] # out.returned.errors[2]
    /\ out.view.errors = SubSeq(out.returned.errors, 1, 10)

\* A lower-case letter, an upper-case letter: of any alphabet.
IsLowerLetter(c) == IsLower(c) \/ c \in NonAsciiLower

IsUpperLetter(c) == IsUpper(c) \/ c \in NonAsciiUpper

\* C9, as the specification states it: the camel-case repair that ends
\* extract_text_and_photo is idempotent, and in its output no lower-case
\* letter stands right before an upper-case letter.
C9_NoLowerBeforeUpper ==
    (out.op = "extract_text_and_photo" /\ ~out.returned.raised) =>
        LET text == out.returned.text
        IN  /\ split_camel_case(text) = text
            /\ \A i \in 1..(Len(text) - 1) :
                   ~(IsLowerLetter(text[i]) /\ IsUpperLetter(text[i + 1]))

\* C9, amended: the camel-case repair that ends extract_text_and_photo is
\* idempotent, and in its output no ASCII lower-case letter (a to z) stands
\* right before an ASCII upper-case letter (A to Z).
C9_RepairIsIdempotentOnAscii ==
    (out.op = "extract_text_and_photo" /\ ~out.returned.raised) =>
        LET text == out.returned.text
        IN  /\ split_camel_case(text) = text
            /\ \A i \in 1..(Len(text) - 1) : ~(IsLower(text[i]) /\ IsUpper(text[i + 1]))

\* C9's case: the repair of a text with two places to repair.
C9_Witness ==
    /\ out.op = "extract_text_and_photo"
    /\ ~out.returned.raised
    /\ doc.content.text = <<"a", "B", "z", "B">>
    /\ out.returned.text = <<"a", " ", "B", "z", " ", "B">>

====
